---- MODULE Spec2Model ----
(***************************************************************************)
(* A model of the rparsec parser-combinator core (src/src/lib.rs).         *)
(*                                                                         *)
(* A Parser is a boxed closure.  The model represents each closure by the  *)
(* constructor that made it together with the values it captured           *)
(* (<<"p_or", left, right>>, <<"p_char", c>>, ...), and `call` runs the     *)
(* closure's body on an input.  A Rust char is a one-character TLA+        *)
(* string, a Rust String / &str is a sequence of chars.                    *)
(*                                                                         *)
(* `call` returns the closure's Result together with the list of closure   *)
(* invocations it made, in the order they were made, so that "is never     *)
(* invoked" and "is run on the original input" are statements about the    *)
(* model.                                                                  *)
(***************************************************************************)
EXTENDS Naturals, Sequences, FiniteSets, TLC

VARIABLES parser, phase, inp, out

vars == <<parser, phase, inp, out>>

----------------------------------------------------------------------------
(* Bounds of the model.                                                    *)

\* Longest input drawn exhaustively over Alphabet for the combinator runs.
MaxLen == 2
\* Most combinator applications in one grammar.
MaxOps == 2
\* Longest literal and longest input drawn exhaustively for the runs of the
\* primitives alone.
MaxLit == 2
MaxPrimLen == 3
\* Longest input drawn exhaustively for the scheme grammar.
MaxSchemeLen == 6

RECURSIVE Strings(_, _)
\* All sequences over alphabet A of length at most n.
Strings(A, n) ==
    IF n = 0 THEN {<<>>}
    ELSE LET shorter == Strings(A, n - 1)
         IN  shorter \cup {Append(s, a) : s \in shorter, a \in A}

----------------------------------------------------------------------------
(* enum ParseError and Result                                              *)

EOF(expected) == <<"EOF", expected>>
Mismatch(expected, found) == <<"Mismatch", expected, found>>
Multiple(causes) == <<"Multiple", causes>>

Ok(value, rest) == <<"Ok", value, rest>>
Err(e) == <<"Err", e>>

IsOk(r) == r[1] = "Ok"
IsErr(r) == r[1] = "Err"

\* What one closure call yields: its Result and the closure calls it made.
Outcome(r, t) == [res |-> r, trace |-> t]

----------------------------------------------------------------------------
(* std: the library functions the closures use.                            *)

\* char::to_string
to_string(c) == <<c>>

\* str::strip_prefix: the rest after the prefix, or None.
strip_prefix(s, prefix) ==
    IF Len(prefix) <= Len(s) /\ SubSeq(s, 1, Len(prefix)) = prefix
    THEN <<"Some", SubSeq(s, Len(prefix) + 1, Len(s))>>
    ELSE <<"None">>

----------------------------------------------------------------------------
(* The constructors: each returns the closure it boxes.                    *)

p_char(c) == <<"p_char", c>>
p_str(s) == <<"p_str", s>>
p_or(left, right) == <<"p_or", left, right>>
then(a, b) == <<"then", a, b>>
bind(a, f) == <<"bind", a, f>>
map(a, f) == <<"map", a, f>>
p_as(a, b) == <<"p_as", a, b>>

\* A | that hands its operands to p_or the wrong way round.
bitor_swapped(self, rhs) == p_or(rhs, self)

\* impl BitOr: self | rhs
bitor(self, rhs) == p_or(self, rhs)
\* impl BitXor: self ^ rhs
bitxor(self, rhs) == p_as(self, rhs)

----------------------------------------------------------------------------
(* The functions a caller hands to map and bind.  Both take fn pointers.   *)

\* fn(A) -> B handed to map: |v| v, |c: char| c.to_string() and
\* |s: String| s.repeat(2).
ApplyFn(f, v) ==
    CASE f = "identity" -> v
      [] f = "to_string" -> to_string(v)
      [] f = "double" -> v \o v

\* fn(A) -> Parser<B, E> handed to bind: p_char and p_str themselves, or a
\* function that ignores its argument and builds q.
Const(q) == <<"const", q>>
ApplyBind(f, v) ==
    CASE f[1] = "p_char" -> p_char(v)
      [] f[1] = "p_str" -> p_str(v)
      [] f[1] = "const" -> f[2]

----------------------------------------------------------------------------
(* The closure bodies.                                                     *)

RECURSIVE call(_, _)

\* A p_char that reports the whole input as what it found, as p_str does.
p_char_found_input(c, i) ==
    IF i # <<>> /\ Head(i) = c THEN Outcome(Ok(c, Tail(i)), <<>>)
    ELSE IF i # <<>> THEN Outcome(Err(Mismatch(to_string(c), i)), <<>>)
    ELSE Outcome(Err(EOF(to_string(c))), <<>>)

\* p_char's closure: match on inp.chars().next().
p_char_closure(c, i) ==
    IF i # <<>> /\ Head(i) = c THEN Outcome(Ok(c, Tail(i)), <<>>)
    ELSE IF i # <<>> THEN Outcome(Err(Mismatch(to_string(c), to_string(Head(i)))), <<>>)
    ELSE Outcome(Err(EOF(to_string(c))), <<>>)

\* ASCII lower case, over the letters of the model.
to_ascii_lowercase(c) == IF c = "H" THEN "h" ELSE c

\* A p_str that compares ignoring ASCII case.
p_str_ignore_case(s, i) ==
    IF /\ Len(s) <= Len(i)
       /\ \A k \in 1..Len(s) : to_ascii_lowercase(i[k]) = to_ascii_lowercase(s[k])
    THEN Outcome(Ok(s, SubSeq(i, Len(s) + 1, Len(i))), <<>>)
    ELSE Outcome(Err(Mismatch(s, i)), <<>>)

\* A p_str that, like p_char, reports EOF when the input ends inside the
\* literal.
p_str_eof_when_short(s, i) ==
    LET stripped == strip_prefix(i, s)
    IN  IF stripped[1] = "Some" THEN Outcome(Ok(s, stripped[2]), <<>>)
        ELSE IF Len(i) < Len(s) /\ SubSeq(s, 1, Len(i)) = i
        THEN Outcome(Err(EOF(s)), <<>>)
        ELSE Outcome(Err(Mismatch(s, i)), <<>>)

\* A p_str that strips the literal from the end of the input.
p_str_strip_suffix(s, i) ==
    IF Len(s) <= Len(i) /\ SubSeq(i, Len(i) - Len(s) + 1, Len(i)) = s
    THEN Outcome(Ok(s, SubSeq(i, 1, Len(i) - Len(s))), <<>>)
    ELSE Outcome(Err(Mismatch(s, i)), <<>>)

\* p_str's closure: match on inp.strip_prefix(&s).
p_str_closure(s, i) ==
    LET stripped == strip_prefix(i, s)
    IN  IF stripped[1] = "Some" THEN Outcome(Ok(s, stripped[2]), <<>>)
        ELSE Outcome(Err(Mismatch(s, i)), <<>>)

\* A p_or that tries its right branch first.
p_or_right_first(left, right, i) ==
    LET r == call(right, i)
    IN  IF IsOk(r.res) THEN Outcome(r.res, r.trace)
        ELSE LET l == call(left, i)
             IN  IF IsOk(l.res) THEN Outcome(l.res, r.trace \o l.trace)
                 ELSE Outcome(Err(Multiple(<<l.res[2], r.res[2]>>)),
                              r.trace \o l.trace)

\* A p_or that reports only the last branch's error.
p_or_last_error(left, right, i) ==
    LET l == call(left, i)
    IN  IF IsOk(l.res) THEN Outcome(l.res, l.trace)
        ELSE LET r == call(right, i)
             IN  IF IsOk(r.res) THEN Outcome(r.res, l.trace \o r.trace)
                 ELSE Outcome(Err(Multiple(<<r.res[2]>>)), l.trace \o r.trace)

\* A p_or that flattens a left error that is itself a Multiple.
p_or_flatten(left, right, i) ==
    LET l == call(left, i)
    IN  IF IsOk(l.res) THEN Outcome(l.res, l.trace)
        ELSE LET r == call(right, i)
             IN  IF IsOk(r.res) THEN Outcome(r.res, l.trace \o r.trace)
                 ELSE IF l.res[2][1] = "Multiple"
                 THEN Outcome(Err(Multiple(Append(l.res[2][2], r.res[2]))),
                              l.trace \o r.trace)
                 ELSE Outcome(Err(Multiple(<<l.res[2], r.res[2]>>)),
                              l.trace \o r.trace)

\* p_or's closure.
p_or_closure(left, right, i) ==
    LET l == call(left, i)
    IN  IF IsOk(l.res) THEN Outcome(l.res, l.trace)
        ELSE LET r == call(right, i)
             IN  IF IsOk(r.res) THEN Outcome(r.res, l.trace \o r.trace)
                 ELSE Outcome(Err(Multiple(<<l.res[2], r.res[2]>>)),
                              l.trace \o r.trace)

\* A then that runs b on the input a was given, not on a's remainder.
then_same_input(a, b, i) ==
    LET x == call(a, i)
    IN  IF IsOk(x.res)
        THEN LET y == call(b, i)
             IN  Outcome(y.res, x.trace \o y.trace)
        ELSE Outcome(Err(x.res[2]), x.trace)

\* then's closure.
then_closure(a, b, i) ==
    LET x == call(a, i)
    IN  IF IsOk(x.res)
        THEN LET y == call(b, x.res[3])
             IN  Outcome(y.res, x.trace \o y.trace)
        ELSE Outcome(Err(x.res[2]), x.trace)

\* bind's closure.
bind_closure(a, f, i) ==
    LET x == call(a, i)
    IN  IF IsOk(x.res)
        THEN LET y == call(ApplyBind(f, x.res[2]), x.res[3])
             IN  Outcome(y.res, x.trace \o y.trace)
        ELSE Outcome(Err(x.res[2]), x.trace)

\* A map that returns the input it was given as the remainder.
map_keeps_input(a, f, i) ==
    LET x == call(a, i)
    IN  IF IsOk(x.res) THEN Outcome(Ok(ApplyFn(f, x.res[2]), i), x.trace)
        ELSE Outcome(Err(x.res[2]), x.trace)

\* map's closure.
map_closure(a, f, i) ==
    LET x == call(a, i)
    IN  IF IsOk(x.res) THEN Outcome(Ok(ApplyFn(f, x.res[2]), x.res[3]), x.trace)
        ELSE Outcome(Err(x.res[2]), x.trace)

\* p_as's closure.
p_as_closure(a, b, i) ==
    LET x == call(a, i)
    IN  IF IsOk(x.res) THEN Outcome(Ok(b, x.res[3]), x.trace)
        ELSE Outcome(Err(x.res[2]), x.trace)

\* self.0.call((inp,)): run the boxed closure p on i.  The call itself is
\* the first entry of the trace.
call(p, i) ==
    LET o == CASE p[1] = "p_char" -> p_char_closure(p[2], i)
               [] p[1] = "p_str" -> p_str_closure(p[2], i)
               [] p[1] = "p_or" -> p_or_closure(p[2], p[3], i)
               [] p[1] = "then" -> then_closure(p[2], p[3], i)
               [] p[1] = "bind" -> bind_closure(p[2], p[3], i)
               [] p[1] = "map" -> map_closure(p[2], p[3], i)
               [] p[1] = "p_as" -> p_as_closure(p[2], p[3], i)
    IN  Outcome(o.res, <<<<p, i>>>> \o o.trace)

\* Parser::run
run(self, i) == call(self, i)

----------------------------------------------------------------------------
(* Typing.  Rust checks that both branches of p_or produce the same value  *)
(* type and that a function fits the value it is applied to; the grammars  *)
(* the model builds are the ones that compile.                             *)

RECURSIVE TypeOf(_)
TypeOf(p) ==
    CASE p[1] = "p_char" -> "char"
      [] p[1] = "p_str" -> "String"
      [] p[1] = "p_or" -> TypeOf(p[2])
      [] p[1] = "then" -> TypeOf(p[3])
      [] p[1] = "bind" -> (CASE p[3][1] = "p_char" -> "char"
                             [] p[3][1] = "p_str" -> "String"
                             [] p[3][1] = "const" -> TypeOf(p[3][2]))
      [] p[1] = "map" -> (IF p[3] = "identity" THEN TypeOf(p[2]) ELSE "String")
      [] p[1] = "p_as" -> "Scheme"

\* The functions of the model that accept a value of type t.
MapFns(t) ==
    CASE t = "char" -> {"identity", "to_string"}
      [] t = "String" -> {"identity", "double"}
      [] OTHER -> {"identity"}

RECURSIVE Ops(_)
\* The number of combinator applications in grammar p.
Ops(p) ==
    CASE p[1] \in {"p_char", "p_str"} -> 0
      [] p[1] \in {"p_or", "then"} -> 1 + Ops(p[2]) + Ops(p[3])
      [] p[1] = "bind" -> 1 + Ops(p[2]) + (IF p[3][1] = "const" THEN Ops(p[3][2]) ELSE 0)
      [] OTHER -> 1 + Ops(p[2])

----------------------------------------------------------------------------
(* The values the runs draw from.                                          *)

Alphabet == {"c", "h", "x"}
ello == <<"e", "l", "l", "o">>
hello == <<"h">> \o ello
cello == <<"c">> \o ello
xello == <<"x">> \o ello
http == <<"h", "t", "t", "p">>
https == http \o <<"s">>
ftp == <<"f", "t", "p">>

\* enum Scheme of tests::test_scheme
Scheme == {"HTTP", "HTTPS"}

Chars == Alphabet
Literals == {<<"h", "x">>, ello}
Leaves == {p_char(c) : c \in Chars} \cup {p_str(s) : s \in Literals}
BindFns(t) ==
    CASE t = "char" -> {<<"p_char">>, Const(p_char("x"))}
      [] t = "String" -> {<<"p_str">>, Const(p_char("x"))}
      [] OTHER -> {Const(p_char("x"))}

\* The inputs of the combinator runs: every short input over Alphabet and
\* the inputs of tests::it_works and of the spec's examples.
Inputs == Strings(Alphabet, MaxLen) \cup {hello, cello, xello}

----------------------------------------------------------------------------
(* The state machine: a caller builds a grammar, constructor by            *)
(* constructor, and runs it once (run takes self by value).                *)

NoParser == <<"none">>
NoOutcome == Outcome(<<"none">>, <<>>)

Init ==
    /\ parser = NoParser
    /\ phase = "build"
    /\ inp = <<>>
    /\ out = NoOutcome

Built(p) ==
    /\ parser' = p
    /\ UNCHANGED <<phase, inp, out>>

CanGrow == phase = "build" /\ parser # NoParser /\ Ops(parser) < MaxOps

MkChar == \E c \in Chars :
    /\ phase = "build" /\ parser = NoParser
    /\ Built(p_char(c))

MkStr == \E s \in Literals :
    /\ phase = "build" /\ parser = NoParser
    /\ Built(p_str(s))

MkThen == CanGrow /\ \E q \in Leaves :
    Built(then(parser, q))

MkBind == CanGrow /\ \E f \in BindFns(TypeOf(parser)) :
    Built(bind(parser, f))

MkMap == CanGrow /\ \E f \in MapFns(TypeOf(parser)) :
    Built(map(parser, f))

MkAs == CanGrow /\ \E k \in Scheme :
    Built(bitxor(parser, k))

MkOr == CanGrow /\ \E q \in Leaves :
    /\ TypeOf(q) = TypeOf(parser)
    /\ \/ Built(bitor(parser, q))
       \/ Built(bitor(q, parser))

Run(I) == \E i \in I :
    /\ phase = "build" /\ parser # NoParser
    /\ phase' = "ran"
    /\ inp' = i
    /\ out' = run(parser, i)
    /\ UNCHANGED parser

RunAny == Run(Inputs)

Next == MkChar \/ MkStr \/ MkThen \/ MkBind \/ MkMap \/ MkAs \/ MkOr \/ RunAny

Spec == Init /\ [][Next]_vars

----------------------------------------------------------------------------
(* The primitives alone: every short literal and input over an alphabet    *)
(* with both cases of a letter, and the literal("http") examples.          *)

PrimAlphabet == {"h", "H", "t"}
htt == <<"h", "t", "t">>
httpz == http \o <<"z">>
httpSlashSlashX == http \o <<":", "/", "/", "x">>

PrimLiterals == Strings(PrimAlphabet, MaxLit) \cup {http}
PrimInputs == Strings(PrimAlphabet, MaxPrimLen) \cup {htt, http, httpz, httpSlashSlashX}

PrimChar == \E c \in PrimAlphabet :
    /\ phase = "build" /\ parser = NoParser
    /\ Built(p_char(c))

PrimStr == \E s \in PrimLiterals :
    /\ phase = "build" /\ parser = NoParser
    /\ Built(p_str(s))

RunPrim == Run(PrimInputs)

NextPrim == PrimChar \/ PrimStr \/ RunPrim

SpecPrim == Init /\ [][NextPrim]_vars

----------------------------------------------------------------------------
(* tests::test_scheme: the scheme grammar, run on every short input over   *)
(* the letters of its literals and on the spec's "ftp".                    *)

scheme == bitor(bitxor(p_str(https), "HTTPS"), bitxor(p_str(http), "HTTP"))

SchemeAlphabet == {"h", "t", "p", "s"}
SchemeInputs == Strings(SchemeAlphabet, MaxSchemeLen) \cup {ftp, httpSlashSlashX}

TestScheme ==
    /\ phase = "build" /\ parser = NoParser
    /\ Built(scheme)

RunScheme == Run(SchemeInputs)

NextScheme == TestScheme \/ RunScheme

SpecScheme == Init /\ [][NextScheme]_vars

----------------------------------------------------------------------------
(* Vocabulary of the properties.                                           *)

Ran == phase = "ran"

\* The entry the run of the whole grammar puts first in its trace.
Me == <<<<parser, inp>>>>

\* s begins with prefix, stated position by position.
BeginsWith(s, prefix) ==
    /\ Len(prefix) <= Len(s)
    /\ \A k \in 1..Len(prefix) : s[k] = prefix[k]

\* r is what is left of s after dropping some characters from its front.
IsSuffix(r, s) ==
    /\ Len(r) <= Len(s)
    /\ \A k \in 1..Len(r) : r[k] = s[Len(s) - Len(r) + k]

----------------------------------------------------------------------------
(* C1: ordered alternation with full backtracking.  When or(L, R) is run   *)
(* on an input, L is the first parser it calls, on that input.  If L       *)
(* succeeds, the result is L's result alone and the calls made are exactly *)
(* L's calls, so R is not called.  If L fails and R succeeds, the result   *)
(* is what R alone gives on the original input, and R was called on the    *)
(* original input after L's calls.                                         *)
C1_OrderedAlternation ==
    (Ran /\ parser[1] = "p_or") =>
        LET L == parser[2]
            R == parser[3]
            l == call(L, inp)
            r == call(R, inp)
        IN  /\ out.trace[2] = <<L, inp>>
            /\ IsOk(l.res) =>
                   /\ out.res = l.res
                   /\ out.trace = Me \o l.trace
            /\ (IsErr(l.res) /\ IsOk(r.res)) =>
                   /\ out.res = r.res
                   /\ out.trace = Me \o l.trace \o r.trace
                   /\ out.trace[2 + Len(l.trace)] = <<R, inp>>

\* or(then(char('h'), char('x')), char('h')) on "hello": the left branch
\* consumes 'h' and then fails, the right branch succeeds from the start.
C1_Witness ==
    /\ Ran
    /\ parser = p_or(then(p_char("h"), p_char("x")), p_char("h"))
    /\ inp = hello
    /\ out.res = Ok("h", ello)
    /\ Len(out.trace) = 5

(* C2: error aggregation.  When both L and R fail on the input, or(L, R)   *)
(* fails with Multiple of exactly two causes: L's error on the original    *)
(* input, then R's error on the original input.                            *)
C2_ErrorAggregation ==
    (Ran /\ parser[1] = "p_or") =>
        LET l == call(parser[2], inp)
            r == call(parser[3], inp)
        IN  (IsErr(l.res) /\ IsErr(r.res)) =>
                /\ out.res = Err(Multiple(<<l.res[2], r.res[2]>>))
                /\ Len(out.res[2][2]) = 2
                /\ out.res[2][2][1] = l.res[2]
                /\ out.res[2][2][2] = r.res[2]

\* or(char('c'), char('h')) on "xello".
C2_Witness ==
    /\ Ran
    /\ parser = p_or(p_char("c"), p_char("h"))
    /\ inp = xello
    /\ out.res = Err(Multiple(<<Mismatch(<<"c">>, <<"x">>), Mismatch(<<"h">>, <<"x">>)>>))

(* C6: sequencing and short-circuit.  then(P, Q) gives the same result and *)
(* makes the same calls below itself as bind(P, f) where f ignores its     *)
(* argument and returns Q.  If P fails, the error is P's error and nothing *)
(* is called after P's calls, so Q is not called.  If P succeeds, the      *)
(* result is Q's result on P's remainder, whatever value P produced, and   *)
(* Q's calls follow P's.  then(or(char('c'), char('h')), literal("ello"))  *)
(* gives Ok(("ello", "")) on "hello" and on "cello".                       *)
C6_ThenSequencing ==
    (Ran /\ parser[1] = "then") =>
        LET P == parser[2]
            Q == parser[3]
            a == call(P, inp)
            viaBind == call(bind(P, Const(Q)), inp)
        IN  /\ out.res = viaBind.res
            /\ Tail(out.trace) = Tail(viaBind.trace)
            /\ IsErr(a.res) =>
                   /\ out.res = a.res
                   /\ out.trace = Me \o a.trace
            /\ IsOk(a.res) =>
                   LET b == call(Q, a.res[3])
                   IN  /\ out.res = b.res
                       /\ out.trace = Me \o a.trace \o b.trace
            /\ (P = p_or(p_char("c"), p_char("h")) /\ Q = p_str(ello)
                  /\ inp \in {hello, cello}) =>
                   out.res = Ok(ello, <<>>)

\* then(or(char('c'), char('h')), literal("ello")) on "cello".
C6_Witness ==
    /\ Ran
    /\ parser = then(p_or(p_char("c"), p_char("h")), p_str(ello))
    /\ inp = cello
    /\ out.res = Ok(ello, <<>>)

(* C7: value transforms keep the split and the error.  map(P, f) fails     *)
(* with P's error when P fails and gives (f(v), rest) when P gives         *)
(* (v, rest); map(P, identity) gives P's result; as(P, k), which is what   *)
(* P ^ k builds, gives (k, rest) whatever v was and P's error when P       *)
(* fails.  Neither calls anything but P.                                   *)
C7_ValueTransforms ==
    (Ran /\ parser[1] \in {"map", "p_as"}) =>
        LET a == call(parser[2], inp)
        IN  /\ out.trace = Me \o a.trace
            /\ IsErr(a.res) => out.res = a.res
            /\ IsOk(a.res) =>
                   /\ IsOk(out.res)
                   /\ out.res[3] = a.res[3]
                   /\ parser[1] = "map" => out.res[2] = ApplyFn(parser[3], a.res[2])
                   /\ (parser[1] = "map" /\ parser[3] = "identity") => out.res = a.res
                   /\ parser[1] = "p_as" => out.res[2] = parser[3]

\* as(map(char('h'), to_string), HTTP) on "hx": the value becomes HTTP and
\* the remainder is still "x".
C7_Witness ==
    /\ Ran
    /\ parser = bitxor(map(p_char("h"), "to_string"), "HTTP")
    /\ inp = <<"h", "x">>
    /\ out.res = Ok("HTTP", <<"x">>)

RECURSIVE TwoCausesEverywhere(_)
\* Every Multiple in error e, at any depth, holds exactly two causes.
TwoCausesEverywhere(e) ==
    e[1] = "Multiple" =>
        /\ Len(e[2]) = 2
        /\ \A k \in 1..Len(e[2]) : TwoCausesEverywhere(e[2][k])

\* or(or(A, B), C) was run and A, B and C each fail on the input.
NestedAllFail ==
    /\ Ran
    /\ parser[1] = "p_or"
    /\ parser[2][1] = "p_or"
    /\ IsErr(call(parser[2][2], inp).res)
    /\ IsErr(call(parser[2][3], inp).res)
    /\ IsErr(call(parser[3], inp).res)

(* C9 as stated: when or(or(A, B), C) is run and A, B and C all fail, the  *)
(* failure is one Multiple holding the three branch errors [eA, eB, eC].   *)
C9_Flattened ==
    NestedAllFail =>
        out.res = Err(Multiple(<<call(parser[2][2], inp).res[2],
                                 call(parser[2][3], inp).res[2],
                                 call(parser[3], inp).res[2]>>))

(* C9 amended: nested alternation nests its errors.  When or(or(A, B), C)  *)
(* is run and all three fail, the failure is Multiple([Multiple([eA, eB]), *)
(* eC]); and in every error any run returns, every Multiple at any depth   *)
(* holds exactly two causes, so none is empty or holds one element.        *)
C9_Nested ==
    /\ NestedAllFail =>
           out.res = Err(Multiple(<<Multiple(<<call(parser[2][2], inp).res[2],
                                               call(parser[2][3], inp).res[2]>>),
                                    call(parser[3], inp).res[2]>>))
    /\ (Ran /\ IsErr(out.res)) => TwoCausesEverywhere(out.res[2])

\* or(or(char('c'), char('h')), char('c')) on "xello".
C9_Witness ==
    /\ Ran
    /\ parser = p_or(p_or(p_char("c"), p_char("h")), p_char("c"))
    /\ inp = xello
    /\ out.res = Err(Multiple(<<Multiple(<<Mismatch(<<"c">>, <<"x">>),
                                           Mismatch(<<"h">>, <<"x">>)>>),
                                Mismatch(<<"c">>, <<"x">>)>>))

(* C10: the remainder is a suffix.  A successful run of any grammar        *)
(* returns a remainder that is a suffix of the input; every closure called *)
(* during the run received a suffix of the input; what then and bind pass  *)
(* to their second parser is a suffix of what they received; and or calls  *)
(* both of its branches on the very input it received.                     *)
C10_RemainderIsSuffix ==
    Ran =>
        /\ IsOk(out.res) => IsSuffix(out.res[3], inp)
        /\ \A k \in 1..Len(out.trace) : IsSuffix(out.trace[k][2], inp)
        /\ parser[1] \in {"then", "bind"} =>
               LET a == call(parser[2], inp)
               IN  IsOk(a.res) =>
                       /\ Len(out.trace) > 1 + Len(a.trace)
                       /\ out.trace[2 + Len(a.trace)][2] = a.res[3]
                       /\ IsSuffix(a.res[3], inp)
        /\ parser[1] = "p_or" =>
               LET l == call(parser[2], inp)
               IN  /\ out.trace[2][2] = inp
                   /\ IsErr(l.res) => out.trace[2 + Len(l.trace)][2] = inp

\* then(or(char('c'), char('x')), char('h')) on "xh": or calls both branches
\* on "xh", then calls char('h') on the remainder "h", nothing is left.
C10_Witness ==
    /\ Ran
    /\ parser = then(p_or(p_char("c"), p_char("x")), p_char("h"))
    /\ inp = <<"x", "h">>
    /\ out.res = Ok("h", <<>>)
    /\ out.trace[5] = <<p_char("h"), <<"h">>>>

(* C3: char is exact.  char(c) run on an input whose first character is c  *)
(* gives Ok((c, rest)) where rest is the input without that one character; *)
(* on an input whose first character is another character d it fails with  *)
(* Mismatch(c, d), d being that one character alone; on the empty input it *)
(* fails with EOF(c).  It calls no other parser.                           *)
C3_CharExact ==
    (Ran /\ parser[1] = "p_char") =>
        LET c == parser[2]
        IN  /\ out.trace = Me
            /\ (inp # <<>> /\ inp[1] = c) =>
                   /\ out.res = Ok(c, SubSeq(inp, 2, Len(inp)))
                   /\ <<c>> \o out.res[3] = inp
            /\ (inp # <<>> /\ inp[1] # c) =>
                   out.res = Err(Mismatch(<<c>>, <<inp[1]>>))
            /\ inp = <<>> => out.res = Err(EOF(<<c>>))

\* char('h') on "th": found is "t" alone, not the input "th".
C3_Witness ==
    /\ Ran
    /\ parser = p_char("h")
    /\ inp = <<"t", "h">>
    /\ out.res = Err(Mismatch(<<"h">>, <<"t">>))

(* C4: literal is exact.  literal(s) succeeds exactly when the input       *)
(* begins with s, character for character and case-sensitively; then the   *)
(* value is s and the remainder is the input without its first len(s)      *)
(* characters.  Otherwise it fails with Mismatch(s, the whole input).      *)
(* literal("http") on "http://x" gives ("http", "://x").                   *)
C4_LiteralExact ==
    (Ran /\ parser[1] = "p_str") =>
        LET s == parser[2]
        IN  /\ out.trace = Me
            /\ IsOk(out.res) <=> BeginsWith(inp, s)
            /\ BeginsWith(inp, s) =>
                   /\ out.res[2] = s
                   /\ out.res[3] = SubSeq(inp, Len(s) + 1, Len(inp))
                   /\ s \o out.res[3] = inp
            /\ ~BeginsWith(inp, s) => out.res = Err(Mismatch(s, inp))
            /\ (s = http /\ inp = httpSlashSlashX) =>
                   out.res = Ok(http, <<":", "/", "/", "x">>)

\* literal("http") on "http://x".
C4_Witness ==
    /\ Ran
    /\ parser = p_str(http)
    /\ inp = httpSlashSlashX
    /\ out.res = Ok(http, <<":", "/", "/", "x">>)

\* The input is the literal s cut short by at least one character.
TooShort(i, s) == Len(i) < Len(s) /\ BeginsWith(s, i)
\* The input is the literal s followed by exactly one more character.
OneMore(i, s) == Len(i) = Len(s) + 1 /\ BeginsWith(i, s)

(* C5 as stated: literal("http") on "htt" and on "httpz" both fail with a  *)
(* Mismatch; for any literal s, an input that is a proper prefix of s and  *)
(* an input that is s followed by one more character both fail with a      *)
(* Mismatch.                                                               *)
C5_BothMismatch ==
    (Ran /\ parser[1] = "p_str") =>
        /\ (parser[2] = http /\ inp \in {htt, httpz}) =>
               (IsErr(out.res) /\ out.res[2][1] = "Mismatch")
        /\ (TooShort(inp, parser[2]) \/ OneMore(inp, parser[2])) =>
               (IsErr(out.res) /\ out.res[2][1] = "Mismatch")

(* C5 amended: literal never returns EOF.  An input that is a proper       *)
(* prefix of s fails with Mismatch(s, input), as literal("http") does on   *)
(* "htt"; an input that is s followed by one more character succeeds with  *)
(* value s and that character as the remainder, as literal("http") does on *)
(* "httpz" with remainder "z".                                             *)
C5_ShortMismatchLongerOk ==
    (Ran /\ parser[1] = "p_str") =>
        LET s == parser[2]
        IN  /\ IsErr(out.res) => out.res[2][1] = "Mismatch"
            /\ TooShort(inp, s) => out.res = Err(Mismatch(s, inp))
            /\ OneMore(inp, s) => out.res = Ok(s, <<inp[Len(inp)]>>)
            /\ (s = http /\ inp = htt) => out.res = Err(Mismatch(http, htt))
            /\ (s = http /\ inp = httpz) => out.res = Ok(http, <<"z">>)

\* literal("http") on "httpz".
C5_Witness ==
    /\ Ran
    /\ parser = p_str(http)
    /\ inp = httpz
    /\ out.res = Ok(http, <<"z">>)

(* C8: the scheme grammar end to end.  For                                 *)
(* (literal("https") ^ HTTPS) | (literal("http") ^ HTTP) and every input:  *)
(* an input that begins with "https" gives Ok((HTTPS, input minus its      *)
(* first 5 characters)); otherwise one that begins with "http" gives       *)
(* Ok((HTTP, input minus its first 4 characters)); otherwise the result is *)
(* Err(Multiple([Mismatch("https", input), Mismatch("http", input)])).     *)
(* "http" gives Ok((HTTP, "")), "https" gives Ok((HTTPS, "")).             *)
C8_SchemeGrammar ==
    (Ran /\ parser = scheme) =>
        /\ IF BeginsWith(inp, https)
           THEN out.res = Ok("HTTPS", SubSeq(inp, Len(https) + 1, Len(inp)))
           ELSE IF BeginsWith(inp, http)
           THEN out.res = Ok("HTTP", SubSeq(inp, Len(http) + 1, Len(inp)))
           ELSE out.res = Err(Multiple(<<Mismatch(https, inp), Mismatch(http, inp)>>))
        /\ inp = http => out.res = Ok("HTTP", <<>>)
        /\ inp = https => out.res = Ok("HTTPS", <<>>)

\* The grammar on "ftp": both literals fail and both errors are reported.
C8_Witness ==
    /\ Ran
    /\ parser = scheme
    /\ inp = ftp
    /\ out.res = Err(Multiple(<<Mismatch(https, ftp), Mismatch(http, ftp)>>))

====
